---- MODULE Spec2Model ----
(***************************************************************************)
(* solana-token-analyzer: the three endpoint handlers (holders, traders,   *)
(* interval), each in its Solscan Pro and its public-API variant, as state *)
(* machines over one request.  An action is the code that runs between two *)
(* awaits of the handler; the upstream is a fixed record stream served in  *)
(* pages of pageSize records, and every upstream request may fail.         *)
(*                                                                         *)
(* JavaScript numbers are modelled as <<n>> (the integer n) or <<>> (NaN), *)
(* so that parseInt/parseFloat of an unparseable query string and the      *)
(* comparisons with NaN behave as they do in the code.  Query strings are  *)
(* sequences of one-character strings.                                     *)
(***************************************************************************)
EXTENDS Integers, Sequences, FiniteSets, TLC

\* ------------------------------------------------------------------ bounds
\* Longest upstream record stream.
MaxStream == 3

\* --------------------------------------------------------------- constants
\* `const pageSize = 50` in every fetch loop, scaled down to 2 records.
pageSize == 2

\* ------------------------------------------------------- JavaScript values
NaN == <<>>

Num(n) == <<n>>

IsNaN(x) == x = NaN

\* a < b, a <= b, a >= b on JavaScript numbers: false when either is NaN.
JsLt(a, b) == ~IsNaN(a) /\ ~IsNaN(b) /\ a[1] < b[1]

JsLe(a, b) == ~IsNaN(a) /\ ~IsNaN(b) /\ a[1] <= b[1]

JsGe(a, b) == JsLe(b, a)

JsGt(a, b) == JsLt(b, a)

\* A query parameter that the request does not carry.
undefined == <<"undefined">>

\* !q for a query parameter: undefined and the empty string are falsy.
Falsy(q) == q = undefined \/ q = <<>>

Digits == <<"0", "1", "2", "3", "4", "5", "6", "7", "8", "9">>

IsDigit(c) == \E i \in 1..10 : Digits[i] = c

DigitVal(c) == (CHOOSE i \in 1..10 : Digits[i] = c) - 1

RECURSIVE ParseDigits(_, _, _)
ParseDigits(s, i, acc) ==
    IF i > Len(s) \/ ~IsDigit(s[i]) THEN acc
    ELSE ParseDigits(s, i + 1, acc * 10 + DigitVal(s[i]))

\* parseInt(s, 10): optional sign, then the longest prefix of decimal
\* digits; NaN when there is no digit.  Trailing garbage is ignored.
ParseInt(s) ==
    LET signed == Len(s) > 0 /\ s[1] \in {"-", "+"}
        start  == IF signed THEN 2 ELSE 1
    IN  IF start > Len(s) \/ ~IsDigit(s[start]) THEN NaN
        ELSE IF signed /\ s[1] = "-" THEN Num(0 - ParseDigits(s, start, 0))
        ELSE Num(ParseDigits(s, start, 0))

\* parseFloat(s) on the query strings of this model, none of which has a
\* fraction or an exponent: sign, digits, NaN when there is no digit.
ParseFloat(s) ==
    LET signed == Len(s) > 0 /\ s[1] \in {"-", "+"}
        start  == IF signed THEN 2 ELSE 1
    IN  IF start > Len(s) \/ ~IsDigit(s[start]) THEN NaN
        ELSE IF signed /\ s[1] = "-" THEN Num(0 - ParseDigits(s, start, 0))
        ELSE Num(ParseDigits(s, start, 0))

Min(a, b) == IF a <= b THEN a ELSE b

Max(a, b) == IF a >= b THEN a ELSE b

\* Array.prototype.slice(0, end): end is truncated to an integer (NaN to 0);
\* a negative end counts from the end of the array.
Slice0(arr, end) ==
    LET e == IF IsNaN(end) THEN 0 ELSE end[1]
        k == IF e < 0 THEN Max(Len(arr) + e, 0) ELSE Min(e, Len(arr))
    IN  SubSeq(arr, 1, k)

RECURSIVE SeqFilter(_, _)
\* The elements of seq for which keep[i] holds, in order.
SeqFilter(seq, keep) ==
    IF seq = <<>> THEN <<>>
    ELSE IF keep[1] THEN <<seq[1]>> \o SeqFilter(Tail(seq), Tail(keep))
    ELSE SeqFilter(Tail(seq), Tail(keep))

RECURSIVE SeqsUpTo(_, _)
\* All sequences over S of length at most n.
SeqsUpTo(S, n) ==
    IF n = 0 THEN {<<>>}
    ELSE LET shorter == SeqsUpTo(S, n - 1)
         IN  shorter \cup {Append(s, x) : s \in {t \in shorter : Len(t) = n - 1}, x \in S}

VARIABLES
    endpoint,       \* "holders", "traders" or "interval"
    variant,        \* "pro" (the .ts handlers) or "public" (the .js handlers)
    query,          \* req.query: token, limit, minAmount, from, to
    apiKey,         \* process.env.VITE_SOLSCAN_PRO_API_KEY is set
    stream,         \* the upstream's records, in the order it serves them
    holes,          \* positions of stream at which the upstream serves no record
    endless,        \* the upstream serves the page `stream` at every offset
    pc,             \* "start", "loop", "await" or "done"
    limit,          \* fetchHolders / fetchTopTraders argument
    minAmount,      \* fetchHolders argument
    offset,         \* let offset
    holders,        \* let holders = []
    walletVolumes,  \* traders.ts: const walletVolumes = {}, in insertion order
    walletCounts,   \* traders.js: const walletCounts = {}, in insertion order
    transactionsProcessed,  \* traders.ts: let transactionsProcessed
    from,           \* fetchActiveWallets argument
    to,             \* fetchActiveWallets argument
    activeWallets,  \* new Map(), in insertion order
    continueFetching,       \* let continueFetching
    scanned,        \* history: stream positions whose record reached the window test
    requests,       \* history: the offsets of the upstream requests issued
    fetched,        \* history: the records of the pages received
    failures,       \* history: the offsets of the upstream requests that failed
    status,         \* HTTP status of the answer, 0 before it
    body,           \* the array sent with a 200
    error,          \* the {error} message sent with a 400 or 500, "" if none
    previous,       \* history: <<body>> of the first of two calls, <<>> before
    address,        \* formatWalletAddress argument
    chars,          \* formatWalletAddress argument: <<n>>, or <<>> when not passed
    formatted,      \* <<result>> of formatWalletAddress, <<>> before the call
    parked,         \* <<locals>> of the call suspended at its await, <<>> if none
    running         \* "A" or "B": the call whose locals the variables above hold

vars == <<endpoint, variant, query, apiKey, stream, holes, endless, pc, limit,
          minAmount, offset, holders, walletVolumes, walletCounts,
          transactionsProcessed, from, to, activeWallets, continueFetching,
          scanned, requests, fetched, failures, status, body, error,
          previous, address, chars, formatted, parked, running>>

request == <<endpoint, variant, query, apiKey, stream, holes, endless>>

outside == <<previous, address, chars, formatted, parked, running>>

holdersLocals == <<minAmount, holders>>

tradersLocals == <<walletVolumes, walletCounts, transactionsProcessed>>

intervalLocals == <<from, to, activeWallets, continueFetching, scanned>>

\* ------------------------------------------------------------ the upstream
\* The page the upstream serves at an offset, and the total it reports.
Page(off) ==
    IF endless THEN stream
    ELSE LET slots == [i \in 1..(Min(off + pageSize, Len(stream)) - off) |-> off + i]
             kept  == SelectSeq(slots, LAMBDA p : p \notin holes)
         IN  [i \in 1..Len(kept) |-> stream[kept[i]]]

total ==
    IF endless THEN offset + pageSize + 1
    ELSE Len(stream) - Cardinality(holes)

\* The upstream of a run that serves consecutive slices of a finite stream.
Consecutive == holes = {} /\ endless = FALSE

\* No call of formatWalletAddress is part of the run.
NoFormat == address = <<>> /\ chars = <<>> /\ formatted = <<>>

\* ------------------------------------------------------------- the answers
\* res.status(code).json(payload) with an array payload.
SendArray(code, arr) ==
    /\ status' = code
    /\ body' = arr
    /\ error' = ""
    /\ pc' = "done"

\* res.status(code).json({ error: msg }).
SendError(code, msg) ==
    /\ status' = code
    /\ body' = <<>>
    /\ error' = msg
    /\ pc' = "done"

\* ================================================================ holders
HolderOwners == {"A", "B"}

HolderAmounts == {1, 5}

HolderRecords == [owner : HolderOwners, uiAmount : HolderAmounts]

TokenQueries == {undefined, <<"T">>}

HolderLimitQueries ==
    {undefined, <<"0">>, <<"1">>, <<"2">>, <<"3">>, <<"-", "1">>, <<"x">>}

MinAmountQueries == {undefined, <<"5">>, <<"x">>}

NoQuery == [token |-> undefined, limit |-> undefined, minAmount |-> undefined,
            from |-> undefined, to |-> undefined]

\* Faulty variants of FilterHolders: no filter at all; a strict comparison.
FilterHoldersNone(data, min) == data

FilterHoldersStrict(data, min) ==
    SeqFilter(data, [i \in 1..Len(data) |-> JsGt(Num(data[i].uiAmount), min)])

\* data.filter(h => h.uiAmount >= minAmount)
FilterHolders(data, min) ==
    SeqFilter(data, [i \in 1..Len(data) |-> JsGe(Num(data[i].uiAmount), min)])

\* .map(h => ({ wallet: h.owner, amount: h.uiAmount }))
MapHolders(data) ==
    [i \in 1..Len(data) |-> [wallet |-> data[i].owner, amount |-> data[i].uiAmount]]

\* const { token, limit = '100', minAmount = '0' } = req.query
HoldersLimitArg ==
    ParseInt(IF query.limit = undefined THEN <<"1", "0", "0">> ELSE query.limit)

HoldersMinAmountArg ==
    ParseFloat(IF query.minAmount = undefined THEN <<"0">> ELSE query.minAmount)

InitLocals ==
    /\ pc = "start"
    /\ limit = NaN
    /\ minAmount = NaN
    /\ offset = 0
    /\ holders = <<>>
    /\ walletVolumes = <<>>
    /\ walletCounts = <<>>
    /\ transactionsProcessed = 0
    /\ from = NaN
    /\ to = NaN
    /\ activeWallets = <<>>
    /\ continueFetching = TRUE
    /\ scanned = {}
    /\ requests = <<>>
    /\ fetched = <<>>
    /\ failures = <<>>
    /\ status = 0
    /\ body = <<>>
    /\ error = ""
    /\ previous = <<>>
    /\ parked = <<>>
    /\ running = "A"

InitHolders ==
    /\ endpoint = "holders"
    /\ variant \in {"pro", "public"}
    /\ query \in {[NoQuery EXCEPT !.token = t, !.limit = l, !.minAmount = m] :
                    t \in TokenQueries, l \in HolderLimitQueries, m \in MinAmountQueries}
    /\ apiKey \in IF variant = "pro" THEN BOOLEAN ELSE {FALSE}
    /\ stream \in SeqsUpTo(HolderRecords, MaxStream)
    /\ InitLocals
    /\ Consecutive
    /\ NoFormat

\* handler of holders.ts up to the first await of fetchHolders.
HoldersProHandler ==
    /\ endpoint = "holders" /\ variant = "pro" /\ pc = "start"
    /\ IF Falsy(query.token)
       THEN /\ SendError(400, "Token address is required.")
            /\ UNCHANGED <<limit, minAmount>>
       ELSE IF ~apiKey
       THEN /\ SendError(500, "Solscan API key is not configured.")
            /\ UNCHANGED <<limit, minAmount>>
       ELSE /\ limit' = HoldersLimitArg
            /\ minAmount' = HoldersMinAmountArg
            /\ pc' = "loop"
            /\ UNCHANGED <<status, body, error>>
    /\ UNCHANGED <<request, outside, failures, offset, holders, requests,
                   fetched, tradersLocals, intervalLocals>>

\* handler of holders.js up to the first await of fetchHolders.
HoldersPublicHandler ==
    /\ endpoint = "holders" /\ variant = "public" /\ pc = "start"
    /\ IF Falsy(query.token)
       THEN /\ SendError(400, "Token address is required.")
            /\ UNCHANGED <<limit, minAmount>>
       ELSE /\ limit' = HoldersLimitArg
            /\ minAmount' = HoldersMinAmountArg
            /\ pc' = "loop"
            /\ UNCHANGED <<status, body, error>>
    /\ UNCHANGED <<request, outside, failures, offset, holders, requests,
                   fetched, tradersLocals, intervalLocals>>

\* Faulty variant of HoldersLoop: while (holders.length <= limit).
HoldersLoopAtMost ==
    /\ endpoint = "holders" /\ pc = "loop"
    /\ IF JsLe(Num(Len(holders)), limit)
       THEN /\ requests' = Append(requests, offset)
            /\ pc' = "await"
            /\ UNCHANGED <<status, body, error>>
       ELSE /\ SendArray(200, Slice0(holders, limit))
            /\ UNCHANGED requests
    /\ UNCHANGED <<request, outside, failures, limit, minAmount, offset,
                   holders, fetched, tradersLocals, intervalLocals>>

\* while (holders.length < limit): issue the next request, or leave the
\* loop and answer holders.slice(0, limit).
HoldersLoop ==
    /\ endpoint = "holders" /\ pc = "loop"
    /\ IF JsLt(Num(Len(holders)), limit)
       THEN /\ requests' = Append(requests, offset)
            /\ pc' = "await"
            /\ UNCHANGED <<status, body, error>>
       ELSE /\ SendArray(200, Slice0(holders, limit))
            /\ UNCHANGED requests
    /\ UNCHANGED <<request, outside, failures, limit, minAmount, offset,
                   holders, fetched, tradersLocals, intervalLocals>>

\* Faulty variant of HoldersProPage: offset += 1, so that consecutive pages
\* overlap.
HoldersProPageByOne ==
    /\ endpoint = "holders" /\ variant = "pro" /\ pc = "await"
    /\ LET data == Page(offset)
           next == holders \o MapHolders(FilterHolders(data, minAmount))
       IN  IF Len(data) = 0
           THEN /\ SendArray(200, Slice0(holders, limit))
                /\ UNCHANGED <<holders, offset, fetched>>
           ELSE /\ holders' = next
                /\ fetched' = fetched \o data
                /\ IF JsGe(Num(Len(next)), limit) \/ offset + pageSize >= total
                   THEN /\ SendArray(200, Slice0(next, limit))
                        /\ UNCHANGED offset
                   ELSE /\ offset' = offset + 1
                        /\ pc' = "loop"
                        /\ UNCHANGED <<status, body, error>>
    /\ UNCHANGED <<request, outside, failures, limit, minAmount, requests,
                   tradersLocals, intervalLocals>>

\* holders.ts: the loop body after the response has arrived.
HoldersProPage ==
    /\ endpoint = "holders" /\ variant = "pro" /\ pc = "await"
    /\ LET data == Page(offset)
           next == holders \o MapHolders(FilterHolders(data, minAmount))
       IN  IF Len(data) = 0
           THEN /\ SendArray(200, Slice0(holders, limit))
                /\ UNCHANGED <<holders, offset, fetched>>
           ELSE /\ holders' = next
                /\ fetched' = fetched \o data
                /\ IF JsGe(Num(Len(next)), limit) \/ offset + pageSize >= total
                   THEN /\ SendArray(200, Slice0(next, limit))
                        /\ UNCHANGED offset
                   ELSE /\ offset' = offset + pageSize
                        /\ pc' = "loop"
                        /\ UNCHANGED <<status, body, error>>
    /\ UNCHANGED <<request, outside, failures, limit, minAmount, requests,
                   tradersLocals, intervalLocals>>

\* Faulty variant of HoldersPublicPage: an empty page is answered as an error.
HoldersPublicPageEmptyIsError ==
    /\ endpoint = "holders" /\ variant = "public" /\ pc = "await"
    /\ LET data == Page(offset)
           next == holders \o MapHolders(FilterHolders(data, minAmount))
       IN  IF Len(data) = 0
           THEN /\ SendError(404, "No holders found.")
                /\ UNCHANGED <<holders, offset, fetched>>
           ELSE /\ holders' = next
                /\ fetched' = fetched \o data
                /\ IF JsGe(Num(Len(next)), limit) \/ Len(data) < pageSize
                   THEN /\ SendArray(200, Slice0(next, limit))
                        /\ UNCHANGED offset
                   ELSE /\ offset' = offset + pageSize
                        /\ pc' = "loop"
                        /\ UNCHANGED <<status, body, error>>
    /\ UNCHANGED <<request, outside, failures, limit, minAmount, requests,
                   tradersLocals, intervalLocals>>

\* holders.js: the loop body after the response has arrived.
HoldersPublicPage ==
    /\ endpoint = "holders" /\ variant = "public" /\ pc = "await"
    /\ LET data == Page(offset)
           next == holders \o MapHolders(FilterHolders(data, minAmount))
       IN  IF Len(data) = 0
           THEN /\ SendArray(200, Slice0(holders, limit))
                /\ UNCHANGED <<holders, offset, fetched>>
           ELSE /\ holders' = next
                /\ fetched' = fetched \o data
                /\ IF JsGe(Num(Len(next)), limit) \/ Len(data) < pageSize
                   THEN /\ SendArray(200, Slice0(next, limit))
                        /\ UNCHANGED offset
                   ELSE /\ offset' = offset + pageSize
                        /\ pc' = "loop"
                        /\ UNCHANGED <<status, body, error>>
    /\ UNCHANGED <<request, outside, failures, limit, minAmount, requests,
                   tradersLocals, intervalLocals>>

\* Faulty variant of HoldersFail: a failed page ends the scan and the rows gathered
\* so far are answered.
HoldersFailPartial ==
    /\ endpoint = "holders" /\ pc = "await"
    /\ failures' = Append(failures, offset)
    /\ SendArray(200, Slice0(holders, limit))
    /\ UNCHANGED <<request, outside, limit, minAmount, offset, holders,
                   requests, fetched, tradersLocals, intervalLocals>>

\* axios.get rejects (transport error or non-2xx): the catch of the loop
\* rethrows, the handler's catch answers 500 with the message.
HoldersFail ==
    /\ endpoint = "holders" /\ pc = "await"
    /\ failures' = Append(failures, offset)
    /\ SendError(500, "Failed to fetch holder data from Solscan.")
    /\ UNCHANGED <<request, outside, limit, minAmount, offset, holders,
                   requests, fetched, tradersLocals, intervalLocals>>

NextHolders ==
    \/ HoldersProHandler
    \/ HoldersPublicHandler
    \/ HoldersLoop
    \/ HoldersProPage
    \/ HoldersPublicPage
    \/ HoldersFail

SpecHolders == InitHolders /\ [][NextHolders]_vars

\* ------------------------------------------------------- holders: claims
RECURSIVE Qualifying(_, _, _)
\* The {wallet, amount} rows of the first n records of recs whose uiAmount is
\* a number at least min, in the order of recs.
Qualifying(recs, min, n) ==
    IF n = 0 THEN <<>>
    ELSE LET r    == recs[n]
             rest == Qualifying(recs, min, n - 1)
         IN  IF ~IsNaN(min) /\ r.uiAmount >= min[1]
             THEN Append(rest, [wallet |-> r.owner, amount |-> r.uiAmount])
             ELSE rest

HoldersAnswered == endpoint = "holders" /\ status = 200

\* C1: every record that fetchHolders returns (Pro and public variant) has
\* amount >= minAmount, for every upstream, limit and minAmount.
C1_EveryHolderAtLeastMinAmount ==
    HoldersAnswered =>
        \A i \in 1..Len(body) :
            ~IsNaN(minAmount) /\ body[i].amount >= minAmount[1]

\* C1 happens: two pages were fetched, a record below minAmount was dropped
\* and a record was returned.
C1_Witness ==
    /\ HoldersAnswered
    /\ Len(requests) = 2
    /\ Len(body) > 0
    /\ \E i \in 1..Len(fetched) : JsLt(Num(fetched[i].uiAmount), minAmount)

\* C2 as stated: the output is the first `limit` qualifying records in
\* upstream order and its length is min(limit, number of qualifying records
\* of the pages fetched), for every limit.
C2_Original ==
    HoldersAnswered =>
        LET q == Qualifying(fetched, minAmount, Len(fetched))
        IN  /\ ~IsNaN(limit)
            /\ Len(body) = Min(limit[1], Len(q))
            /\ body = SubSeq(q, 1, Len(body))

\* C18: fetchHolders issues a request only while the rows accumulated from
\* the pages before it number fewer than limit (none when limit <= 0 or
\* NaN), and a request follows a page only if that page was not empty and
\* did not exhaust the upstream (Pro: offset + pageSize < total; public: the
\* page was full).
C18_HoldersStopRule ==
    endpoint = "holders" =>
        \A i \in 1..Len(requests) :
            /\ JsLt(Num(Len(Qualifying(stream, minAmount,
                                       Min(requests[i], Len(stream))))), limit)
            /\ i > 1 =>
                  /\ Page(requests[i - 1]) # <<>>
                  /\ variant = "pro" => requests[i - 1] + pageSize < total
                  /\ variant = "public" => Len(Page(requests[i - 1])) = pageSize

\* C18 happens: a Pro holders request has been answered after two requests,
\* the second page having exhausted the upstream before limit rows were
\* gathered.
C18_Witness ==
    /\ endpoint = "holders" /\ variant = "pro"
    /\ Len(requests) = 2 /\ requests[2] + pageSize >= total
    /\ JsLt(Num(Len(holders)), limit)
    /\ pc = "done" /\ status = 200

\* The number of rows a limit allows: the limit itself when it is a
\* non-negative integer, none when it is negative or NaN.
RowsAllowed(l) == IF IsNaN(l) \/ l[1] < 0 THEN 0 ELSE l[1]

\* C2 (amended): the output is the first RowsAllowed(limit) qualifying records,
\* in upstream order, of the pages fetched, which are also the first such
\* records of the whole upstream; for a negative or NaN limit it is empty.
C2_FirstLimitQualifying ==
    HoldersAnswered =>
        LET q == Qualifying(fetched, minAmount, Len(fetched))
            k == Min(RowsAllowed(limit), Len(q))
        IN  /\ Len(body) = k
            /\ body = SubSeq(q, 1, k)
            /\ body = SubSeq(Qualifying(stream, minAmount, Len(stream)), 1, k)

\* C2 happens: the list reached a positive limit on the second page, with a
\* record filtered out on the way.
C2_Witness ==
    /\ HoldersAnswered
    /\ Len(requests) = 2
    /\ ~IsNaN(limit) /\ Len(body) = limit[1]
    /\ Len(body) < Len(fetched)


\* ================================================================ traders
\* `const maxTransactionsToProcess = 1000` (traders.ts) and `= 500`
\* (traders.js): 20 and 10 pages, scaled down to 2 pages and 1 page.
maxTransactionsToProcess == 4

maxTransactionsToProcessPublic == 2

\* The divisor 10**9 of traders.ts.
DecimalScale == 10 ^ 9

Wallets == {"A", "B"}

TraderAmounts == {0 - DecimalScale, 2 * DecimalScale}

TraderTimes == {0 - 1, 2}

\* Transfers of the Pro API, and transactions of the public API, whose
\* signer list may be empty.
TransferRecords ==
    [owner : Wallets, changeAmount : TraderAmounts, blockTime : TraderTimes]

TransactionRecords ==
    [signer : {<<>>} \cup {<<w>> : w \in Wallets}, blockTime : TraderTimes]

\* Every stream of at most MaxStream records, and the streams of one record
\* repeated until the stream is one record longer than n.
StreamsOver(S, n) ==
    SeqsUpTo(S, MaxStream) \cup {[i \in 1..(n + 1) |-> r] : r \in S}

TraderLimitQueries ==
    {undefined, <<"0">>, <<"1">>, <<"2">>, <<"-", "1">>, <<"x">>}

Abs(x) == IF x < 0 THEN 0 - x ELSE x

\* The position of wallet w in an insertion-ordered object or Map, 0 if absent.
IndexOf(entries, w) ==
    IF \E i \in 1..Len(entries) : entries[i].wallet = w
    THEN CHOOSE i \in 1..Len(entries) : entries[i].wallet = w
    ELSE 0

\* Faulty variant of AddTransfer: the signed amount is added, not its absolute value.
AddTransferSigned(wv, tx) ==
    LET volume == tx.changeAmount \div DecimalScale
        at     == IndexOf(wv, tx.owner)
        wv1    == IF at = 0
                  THEN Append(wv, [wallet |-> tx.owner, volume |-> 0, lastTx |-> 0])
                  ELSE wv
        i      == IF at = 0 THEN Len(wv1) ELSE at
    IN  [wv1 EXCEPT ![i].volume = @ + volume,
                    ![i].lastTx = IF tx.blockTime > @ THEN tx.blockTime ELSE @]

\* traders.ts, the body of `for (const tx of response.data.data)`.
AddTransfer(wv, tx) ==
    LET volume == Abs(tx.changeAmount) \div DecimalScale
        at     == IndexOf(wv, tx.owner)
        wv1    == IF at = 0
                  THEN Append(wv, [wallet |-> tx.owner, volume |-> 0, lastTx |-> 0])
                  ELSE wv
        i      == IF at = 0 THEN Len(wv1) ELSE at
    IN  [wv1 EXCEPT ![i].volume = @ + volume,
                    ![i].lastTx = IF tx.blockTime > @ THEN tx.blockTime ELSE @]

RECURSIVE AddTransfers(_, _)
AddTransfers(wv, data) ==
    IF data = <<>> THEN wv ELSE AddTransfers(AddTransfer(wv, Head(data)), Tail(data))

\* traders.js, the body of `for (const tx of data)`: the first signer is the
\* wallet, a transaction without one is skipped.
AddTransaction(wc, tx) ==
    IF tx.signer = <<>> THEN wc
    ELSE LET wallet == tx.signer[1]
             at     == IndexOf(wc, wallet)
             wc1    == IF at = 0
                       THEN Append(wc, [wallet |-> wallet, count |-> 0, lastTx |-> 0])
                       ELSE wc
             i      == IF at = 0 THEN Len(wc1) ELSE at
         IN  [wc1 EXCEPT ![i].count = @ + 1,
                         ![i].lastTx = IF tx.blockTime > @ THEN tx.blockTime ELSE @]

RECURSIVE AddTransactions(_, _)
AddTransactions(wc, data) ==
    IF data = <<>> THEN wc ELSE AddTransactions(AddTransaction(wc, Head(data)), Tail(data))

\* .sort((a, b) => b.volume - a.volume), an insertion into a sorted array:
\* e goes after every element whose volume is at least its own (the sort is
\* stable).
SortInsert(sorted, e) ==
    LET k == Cardinality({i \in 1..Len(sorted) : sorted[i].volume >= e.volume})
    IN  SubSeq(sorted, 1, k) \o <<e>> \o SubSeq(sorted, k + 1, Len(sorted))

RECURSIVE SortByVolume(_)
SortByVolume(arr) ==
    IF arr = <<>> THEN <<>>
    ELSE SortInsert(SortByVolume(SubSeq(arr, 1, Len(arr) - 1)), arr[Len(arr)])

\* Object.entries(walletVolumes).map(...).sort(...).slice(0, limit)
TopTraders(wv, lim) == Slice0(SortByVolume(wv), lim)

\* Object.entries(walletCounts).map(... volume: data.count ...).sort(...).slice(0, limit)
TopTradersByCount(wc, lim) ==
    Slice0(SortByVolume([i \in 1..Len(wc) |->
                            [wallet |-> wc[i].wallet, volume |-> wc[i].count,
                             lastTx |-> wc[i].lastTx]]), lim)

\* const { token, limit = '50' } = req.query
TradersLimitArg ==
    ParseInt(IF query.limit = undefined THEN <<"5", "0">> ELSE query.limit)

InitTraders ==
    /\ endpoint = "traders"
    /\ variant \in {"pro", "public"}
    /\ query \in {[NoQuery EXCEPT !.token = t, !.limit = l] :
                    t \in TokenQueries, l \in TraderLimitQueries}
    /\ apiKey \in IF variant = "pro" THEN BOOLEAN ELSE {FALSE}
    /\ stream \in IF variant = "pro"
                  THEN StreamsOver(TransferRecords, maxTransactionsToProcess)
                  ELSE StreamsOver(TransactionRecords, maxTransactionsToProcessPublic)
    /\ InitLocals
    /\ Consecutive
    /\ NoFormat

\* Faulty variant of TradersProHandler: the aggregation is entered without the
\* key being looked at.
TradersProHandlerNoKey ==
    /\ endpoint = "traders" /\ variant = "pro" /\ pc = "start"
    /\ IF Falsy(query.token)
       THEN /\ SendError(400, "Token address is required.")
            /\ UNCHANGED limit
       ELSE /\ limit' = TradersLimitArg
            /\ pc' = "loop"
            /\ UNCHANGED <<status, body, error>>
    /\ UNCHANGED <<request, outside, failures, offset, requests, fetched,
                   holdersLocals, tradersLocals, intervalLocals>>

\* handler of traders.ts up to the first await of fetchTopTraders.
TradersProHandler ==
    /\ endpoint = "traders" /\ variant = "pro" /\ pc = "start"
    /\ IF Falsy(query.token)
       THEN /\ SendError(400, "Token address is required.")
            /\ UNCHANGED limit
       ELSE IF ~apiKey
       THEN /\ SendError(500, "Solscan API key is not configured.")
            /\ UNCHANGED limit
       ELSE /\ limit' = TradersLimitArg
            /\ pc' = "loop"
            /\ UNCHANGED <<status, body, error>>
    /\ UNCHANGED <<request, outside, failures, offset, requests, fetched,
                   holdersLocals, tradersLocals, intervalLocals>>

\* handler of traders.js up to the first await of fetchTopTraders.
TradersPublicHandler ==
    /\ endpoint = "traders" /\ variant = "public" /\ pc = "start"
    /\ IF Falsy(query.token)
       THEN /\ SendError(400, "Token address is required.")
            /\ UNCHANGED limit
       ELSE /\ limit' = TradersLimitArg
            /\ pc' = "loop"
            /\ UNCHANGED <<status, body, error>>
    /\ UNCHANGED <<request, outside, failures, offset, requests, fetched,
                   holdersLocals, tradersLocals, intervalLocals>>

\* traders.ts: while (transactionsProcessed < maxTransactionsToProcess).
TradersProLoop ==
    /\ endpoint = "traders" /\ variant = "pro" /\ pc = "loop"
    /\ IF transactionsProcessed < maxTransactionsToProcess
       THEN /\ requests' = Append(requests, offset)
            /\ pc' = "await"
            /\ UNCHANGED <<status, body, error>>
       ELSE /\ SendArray(200, TopTraders(walletVolumes, limit))
            /\ UNCHANGED requests
    /\ UNCHANGED <<request, outside, failures, limit, offset, fetched,
                   holdersLocals, tradersLocals, intervalLocals>>

\* traders.js: while (offset < maxTransactionsToProcess).
TradersPublicLoop ==
    /\ endpoint = "traders" /\ variant = "public" /\ pc = "loop"
    /\ IF offset < maxTransactionsToProcessPublic
       THEN /\ requests' = Append(requests, offset)
            /\ pc' = "await"
            /\ UNCHANGED <<status, body, error>>
       ELSE /\ SendArray(200, TopTradersByCount(walletCounts, limit))
            /\ UNCHANGED requests
    /\ UNCHANGED <<request, outside, failures, limit, offset, fetched,
                   holdersLocals, tradersLocals, intervalLocals>>

\* traders.ts: the loop body after the response has arrived.
TradersProPage ==
    /\ endpoint = "traders" /\ variant = "pro" /\ pc = "await"
    /\ LET data == Page(offset)
           wv   == AddTransfers(walletVolumes, data)
           done == transactionsProcessed + Len(data)
       IN  IF Len(data) = 0
           THEN /\ SendArray(200, TopTraders(walletVolumes, limit))
                /\ UNCHANGED <<walletVolumes, transactionsProcessed, offset, fetched>>
           ELSE /\ walletVolumes' = wv
                /\ fetched' = fetched \o data
                /\ transactionsProcessed' = done
                /\ offset' = offset + pageSize
                /\ IF done >= total
                   THEN SendArray(200, TopTraders(wv, limit))
                   ELSE /\ pc' = "loop"
                        /\ UNCHANGED <<status, body, error>>
    /\ UNCHANGED <<request, outside, failures, limit, requests, walletCounts,
                   holdersLocals, intervalLocals>>

\* traders.js: the loop body after the response has arrived.
TradersPublicPage ==
    /\ endpoint = "traders" /\ variant = "public" /\ pc = "await"
    /\ LET data == Page(offset)
           wc   == AddTransactions(walletCounts, data)
       IN  IF Len(data) = 0
           THEN /\ SendArray(200, TopTradersByCount(walletCounts, limit))
                /\ UNCHANGED <<walletCounts, offset, fetched>>
           ELSE /\ walletCounts' = wc
                /\ fetched' = fetched \o data
                /\ IF Len(data) < pageSize
                   THEN /\ SendArray(200, TopTradersByCount(wc, limit))
                        /\ UNCHANGED offset
                   ELSE /\ offset' = offset + pageSize
                        /\ pc' = "loop"
                        /\ UNCHANGED <<status, body, error>>
    /\ UNCHANGED <<request, outside, failures, limit, requests, walletVolumes,
                   transactionsProcessed, holdersLocals, intervalLocals>>

\* traders.ts: axios.get rejects; catch, rethrow, 500.
TradersProFail ==
    /\ endpoint = "traders" /\ variant = "pro" /\ pc = "await"
    /\ failures' = Append(failures, offset)
    /\ SendError(500, "Failed to fetch transfer data from Solscan.")
    /\ UNCHANGED <<request, outside, limit, offset, requests, fetched,
                   holdersLocals, tradersLocals, intervalLocals>>

\* traders.js: axios.get rejects; catch, rethrow, 500.
TradersPublicFail ==
    /\ endpoint = "traders" /\ variant = "public" /\ pc = "await"
    /\ failures' = Append(failures, offset)
    /\ SendError(500, "Failed to fetch transaction data from Solscan.")
    /\ UNCHANGED <<request, outside, limit, offset, requests, fetched,
                   holdersLocals, tradersLocals, intervalLocals>>

NextTraders ==
    \/ TradersProHandler
    \/ TradersPublicHandler
    \/ TradersProLoop
    \/ TradersPublicLoop
    \/ TradersProPage
    \/ TradersPublicPage
    \/ TradersProFail
    \/ TradersPublicFail

SpecTraders == InitTraders /\ [][NextTraders]_vars

\* ------------------------------------------- traders: pages of any length
\* The upstream may serve fewer than pageSize records at any offset: every
\* stream of one record repeated over the offsets below n + pageSize, with
\* any set of offsets left empty.
InitTradersGaps ==
    /\ endpoint = "traders"
    /\ variant \in {"pro", "public"}
    /\ query \in {[NoQuery EXCEPT !.token = t, !.limit = l] :
                    t \in TokenQueries, l \in TraderLimitQueries}
    /\ apiKey \in IF variant = "pro" THEN BOOLEAN ELSE {FALSE}
    /\ stream \in IF variant = "pro"
                  THEN {[i \in 1..(maxTransactionsToProcess + pageSize) |-> r] :
                          r \in TransferRecords}
                  ELSE {[i \in 1..(maxTransactionsToProcessPublic + pageSize) |-> r] :
                          r \in TransactionRecords}
    /\ holes \in SUBSET (1..Len(stream))
    /\ endless = FALSE
    /\ NoFormat
    /\ InitLocals

SpecTradersGaps == InitTradersGaps /\ [][NextTraders]_vars

\* C16: for every upstream whose pages hold at most pageSize records, the
\* number of records fetchTopTraders has accumulated never exceeds
\* maxTransactionsToProcess (the Pro variant's transactionsProcessed, the
\* public variant's received records).
C16_Original ==
    (/\ endpoint = "traders"
     /\ \A i \in 1..Len(requests) : Len(Page(requests[i])) <= pageSize) =>
        /\ variant = "pro" =>
              /\ transactionsProcessed <= maxTransactionsToProcess
              /\ Len(fetched) = transactionsProcessed
        /\ variant = "public" => Len(fetched) <= maxTransactionsToProcessPublic

\* The same bound for the public variant alone.
C16_PublicWithinCap ==
    (endpoint = "traders" /\ variant = "public") =>
        Len(fetched) <= maxTransactionsToProcessPublic

\* ------------------------------------------------------- traders: claims
TradersAnswered == endpoint = "traders" /\ status = 200

\* The wallet a record counts for: the owner of a transfer, the first signer
\* of a transaction ("" when it has none).
WalletOf(r) ==
    IF variant = "pro" THEN r.owner
    ELSE IF r.signer = <<>> THEN "" ELSE r.signer[1]

RECURSIVE VolumeOf(_, _, _)
\* Over the first n records of recs, the sum of |changeAmount| / 10^9 of
\* wallet w's transfers (Pro), the number of w's transactions (public).
VolumeOf(recs, w, n) ==
    IF n = 0 THEN 0
    ELSE VolumeOf(recs, w, n - 1)
         + (IF WalletOf(recs[n]) # w THEN 0
            ELSE IF variant = "public" THEN 1
            ELSE IF recs[n].changeAmount < 0
                 THEN (0 - recs[n].changeAmount) \div (10 ^ 9)
                 ELSE recs[n].changeAmount \div (10 ^ 9))

ObservedWallets == {WalletOf(fetched[i]) : i \in 1..Len(fetched)} \ {""}

\* The accumulator at the end of the scan, whichever variant built it.
Accumulated ==
    IF variant = "pro" THEN walletVolumes
    ELSE [i \in 1..Len(walletCounts) |->
            [wallet |-> walletCounts[i].wallet, volume |-> walletCounts[i].count,
             lastTx |-> walletCounts[i].lastTx]]

\* C3: fetchTopTraders holds one accumulator for every wallet of the records
\* it observed, and the accumulator it emits for a wallet is the sum of
\* |changeAmount| / 10^9 over that wallet's observed transfers (Pro), the
\* count of that wallet's observed transactions (public).
C3_AccumulatorIsSumOrCount ==
    TradersAnswered =>
        /\ {Accumulated[i].wallet : i \in 1..Len(Accumulated)} = ObservedWallets
        /\ \A i \in 1..Len(Accumulated) :
              Accumulated[i].volume = VolumeOf(fetched, Accumulated[i].wallet, Len(fetched))
        /\ \A i \in 1..Len(body) :
              /\ body[i].wallet \in ObservedWallets
              /\ body[i].volume = VolumeOf(fetched, body[i].wallet, Len(fetched))

\* C3 happens: a wallet is emitted whose volume 5 comes from three transfers,
\* one of them negative, received in two pages.
C3_Witness ==
    /\ TradersAnswered /\ variant = "pro"
    /\ Len(requests) = 2
    /\ \E i \in 1..Len(body) : body[i].volume = 5

\* The latest blockTime among wallet w's records of recs.
MaxBlockTime(recs, w) ==
    CHOOSE t \in {recs[i].blockTime : i \in {j \in 1..Len(recs) : WalletOf(recs[j]) = w}} :
        \A i \in 1..Len(recs) : WalletOf(recs[i]) = w => recs[i].blockTime <= t

\* C4 as stated: for every emitted wallet, lastTx is the maximum blockTime of
\* the records observed for that wallet, whatever the blockTime values are.
C4_Original ==
    TradersAnswered =>
        \A i \in 1..Len(body) : body[i].lastTx = MaxBlockTime(fetched, body[i].wallet)

\* C5 as stated: the output is sorted in non-increasing order of the
\* accumulator and has at most `limit` entries (none for a negative limit).
C5_Original ==
    TradersAnswered =>
        /\ \A i \in 1..(Len(body) - 1) : body[i].volume >= body[i + 1].volume
        /\ Len(body) <= RowsAllowed(limit)



\* =============================================================== interval
IntervalTimes == {1, 2, 3}

\* Transfers of the Pro API (changeAmount is not read), and transactions of
\* the public API, whose signer list may be empty.
IntervalTransferRecords == [owner : Wallets, blockTime : IntervalTimes]

IntervalTransactionRecords ==
    [signer : {<<>>} \cup {<<w>> : w \in Wallets}, blockTime : IntervalTimes]

FromQueries == {undefined, <<"1">>, <<"2">>, <<"x">>}

ToQueries == {undefined, <<"2">>, <<"3">>, <<"x">>}

\* if (!activeWallets.has(w) || blockTime > activeWallets.get(w).lastTx)
\*     activeWallets.set(w, { lastTx: blockTime })
\* A Map keeps the position of a key that is set again.
SetLastTx(aw, w, blockTime) ==
    LET at == IndexOf(aw, w)
    IN  IF at = 0 THEN Append(aw, [wallet |-> w, lastTx |-> blockTime])
        ELSE IF blockTime > aw[at].lastTx THEN [aw EXCEPT ![at].lastTx = blockTime]
        ELSE aw

\* interval.ts: if (tx.blockTime <= to && tx.blockTime >= from) upsert.
UpsertTransfer(aw, tx) ==
    IF JsLe(Num(tx.blockTime), to) /\ JsGe(Num(tx.blockTime), from)
    THEN SetLastTx(aw, tx.owner, tx.blockTime)
    ELSE aw

\* interval.js: const wallet = tx.signer[0]; if (wallet && tx.blockTime <= to) upsert.
UpsertTransaction(aw, tx) ==
    IF tx.signer # <<>> /\ JsLe(Num(tx.blockTime), to)
    THEN SetLastTx(aw, tx.signer[1], tx.blockTime)
    ELSE aw

RECURSIVE ScanTransfersBreakAtFrom(_, _, _)
\* Faulty variant of ScanTransfers: the short-circuit fires at blockTime <= from.
ScanTransfersBreakAtFrom(acc, data, i) ==
    IF i > Len(data) THEN acc
    ELSE IF JsLe(Num(data[i].blockTime), from) THEN [acc EXCEPT !.continue = FALSE]
    ELSE ScanTransfersBreakAtFrom([wallets  |-> UpsertTransfer(acc.wallets, data[i]),
                                   continue |-> acc.continue,
                                   seen     |-> acc.seen \cup {offset + i}], data, i + 1)

RECURSIVE ScanTransfers(_, _, _)
\* interval.ts: `for (const tx of response.data.data)` from record i on.  A
\* record below `from` clears continueFetching and ends the for loop.
ScanTransfers(acc, data, i) ==
    IF i > Len(data) THEN acc
    ELSE IF JsLt(Num(data[i].blockTime), from) THEN [acc EXCEPT !.continue = FALSE]
    ELSE ScanTransfers([wallets  |-> UpsertTransfer(acc.wallets, data[i]),
                        continue |-> acc.continue,
                        seen     |-> acc.seen \cup {offset + i}], data, i + 1)

RECURSIVE ScanTransactions(_, _, _)
\* interval.js: `for (const tx of data)` from record i on.
ScanTransactions(acc, data, i) ==
    IF i > Len(data) THEN acc
    ELSE IF JsLt(Num(data[i].blockTime), from) THEN [acc EXCEPT !.continue = FALSE]
    ELSE ScanTransactions([wallets  |-> UpsertTransaction(acc.wallets, data[i]),
                           continue |-> acc.continue,
                           seen     |-> acc.seen \cup {offset + i}], data, i + 1)

ScanState == [wallets |-> activeWallets, continue |-> continueFetching, seen |-> scanned]

InitInterval ==
    /\ endpoint = "interval"
    /\ variant \in {"pro", "public"}
    /\ query \in {[NoQuery EXCEPT !.token = t, !.from = f, !.to = u] :
                    t \in TokenQueries, f \in FromQueries, u \in ToQueries}
    /\ apiKey \in IF variant = "pro" THEN BOOLEAN ELSE {FALSE}
    /\ stream \in IF variant = "pro"
                  THEN SeqsUpTo(IntervalTransferRecords, MaxStream)
                  ELSE SeqsUpTo(IntervalTransactionRecords, MaxStream)
    /\ InitLocals
    /\ Consecutive
    /\ NoFormat

\* Faulty variant of IntervalProHandler: the handler does not test from and to.
IntervalProHandlerNoRange ==
    /\ endpoint = "interval" /\ variant = "pro" /\ pc = "start"
    /\ IF Falsy(query.token)
       THEN /\ SendError(400, "Token address is required.")
            /\ UNCHANGED <<from, to>>
       ELSE IF ~apiKey
       THEN /\ SendError(500, "Solscan API key is not configured.")
            /\ UNCHANGED <<from, to>>
       ELSE /\ from' = ParseInt(query.from)
            /\ to' = ParseInt(query.to)
            /\ pc' = "loop"
            /\ UNCHANGED <<status, body, error>>
    /\ UNCHANGED <<request, outside, failures, limit, offset, requests,
                   fetched, holdersLocals, tradersLocals, activeWallets,
                   continueFetching, scanned>>

\* handler of interval.ts up to the first await of fetchActiveWallets.
IntervalProHandler ==
    /\ endpoint = "interval" /\ variant = "pro" /\ pc = "start"
    /\ IF Falsy(query.token)
       THEN /\ SendError(400, "Token address is required.")
            /\ UNCHANGED <<from, to>>
       ELSE IF Falsy(query.from) \/ Falsy(query.to)
       THEN /\ SendError(400, "A time range (from, to) is required.")
            /\ UNCHANGED <<from, to>>
       ELSE IF ~apiKey
       THEN /\ SendError(500, "Solscan API key is not configured.")
            /\ UNCHANGED <<from, to>>
       ELSE /\ from' = ParseInt(query.from)
            /\ to' = ParseInt(query.to)
            /\ pc' = "loop"
            /\ UNCHANGED <<status, body, error>>
    /\ UNCHANGED <<request, outside, failures, limit, offset, requests,
                   fetched, holdersLocals, tradersLocals, activeWallets,
                   continueFetching, scanned>>

\* handler of interval.js up to the first await of fetchActiveWallets.
IntervalPublicHandler ==
    /\ endpoint = "interval" /\ variant = "public" /\ pc = "start"
    /\ IF Falsy(query.token)
       THEN /\ SendError(400, "Token address is required.")
            /\ UNCHANGED <<from, to>>
       ELSE IF Falsy(query.from) \/ Falsy(query.to)
       THEN /\ SendError(400, "A time range (from, to) is required.")
            /\ UNCHANGED <<from, to>>
       ELSE /\ from' = ParseInt(query.from)
            /\ to' = ParseInt(query.to)
            /\ pc' = "loop"
            /\ UNCHANGED <<status, body, error>>
    /\ UNCHANGED <<request, outside, failures, limit, offset, requests,
                   fetched, holdersLocals, tradersLocals, activeWallets,
                   continueFetching, scanned>>

MaxPages == 3

\* Under the endless upstream every page is the same and no test reads the
\* offset, so the histories and the offset are followed for MaxPages pages
\* only; with a finite upstream they are followed to the end.
Remember(history, xs) ==
    IF endless /\ offset >= MaxPages * pageSize
    THEN history
    ELSE history \o xs

Advance(off) ==
    IF endless /\ off >= MaxPages * pageSize
    THEN off
    ELSE off + pageSize

\* Faulty variant of IntervalLoop: while (true), the flag is not looked at.
IntervalLoopAlways ==
    /\ endpoint = "interval" /\ pc = "loop"
    /\ requests' = Remember(requests, <<offset>>)
    /\ pc' = "await"
    /\ UNCHANGED <<status, body, error>>
    /\ UNCHANGED <<request, outside, failures, limit, offset, fetched,
                   holdersLocals, tradersLocals, intervalLocals>>

\* while (continueFetching): issue the next request, or leave the loop and
\* answer Array.from(activeWallets.entries()).map(...).
IntervalLoop ==
    /\ endpoint = "interval" /\ pc = "loop"
    /\ IF continueFetching
       THEN /\ requests' = Remember(requests, <<offset>>)
            /\ pc' = "await"
            /\ UNCHANGED <<status, body, error>>
       ELSE /\ SendArray(200, activeWallets)
            /\ UNCHANGED requests
    /\ UNCHANGED <<request, outside, failures, limit, offset, fetched,
                   holdersLocals, tradersLocals, intervalLocals>>

\* interval.ts: the loop body after the response has arrived.
IntervalProPage ==
    /\ endpoint = "interval" /\ variant = "pro" /\ pc = "await"
    /\ LET data == Page(offset)
           scan == ScanTransfers(ScanState, data, 1)
       IN  IF Len(data) = 0
           THEN /\ SendArray(200, activeWallets)
                /\ UNCHANGED <<activeWallets, continueFetching, scanned, offset, fetched>>
           ELSE /\ activeWallets' = scan.wallets
                /\ continueFetching' = scan.continue
                /\ scanned' = scan.seen
                /\ fetched' = Remember(fetched, data)
                /\ offset' = Advance(offset)
                /\ IF offset + pageSize >= total
                   THEN SendArray(200, scan.wallets)
                   ELSE /\ pc' = "loop"
                        /\ UNCHANGED <<status, body, error>>
    /\ UNCHANGED <<request, outside, failures, limit, requests, from, to,
                   holdersLocals, tradersLocals>>

\* interval.js: the loop body after the response has arrived.
IntervalPublicPage ==
    /\ endpoint = "interval" /\ variant = "public" /\ pc = "await"
    /\ LET data == Page(offset)
           scan == ScanTransactions(ScanState, data, 1)
       IN  IF Len(data) = 0
           THEN /\ SendArray(200, activeWallets)
                /\ UNCHANGED <<activeWallets, continueFetching, scanned, offset, fetched>>
           ELSE /\ activeWallets' = scan.wallets
                /\ continueFetching' = scan.continue
                /\ scanned' = scan.seen
                /\ fetched' = Remember(fetched, data)
                /\ IF Len(data) < pageSize
                   THEN /\ SendArray(200, scan.wallets)
                        /\ UNCHANGED offset
                   ELSE /\ offset' = Advance(offset)
                        /\ pc' = "loop"
                        /\ UNCHANGED <<status, body, error>>
    /\ UNCHANGED <<request, outside, failures, limit, requests, from, to,
                   holdersLocals, tradersLocals>>

\* interval.ts: axios.get rejects; catch, rethrow, 500.
IntervalProFail ==
    /\ endpoint = "interval" /\ variant = "pro" /\ pc = "await"
    /\ failures' = Append(failures, offset)
    /\ SendError(500, "Failed to fetch transfer data from Solscan.")
    /\ UNCHANGED <<request, outside, limit, offset, requests, fetched,
                   holdersLocals, tradersLocals, intervalLocals>>

\* interval.js: axios.get rejects; catch, rethrow, 500.
IntervalPublicFail ==
    /\ endpoint = "interval" /\ variant = "public" /\ pc = "await"
    /\ failures' = Append(failures, offset)
    /\ SendError(500, "Failed to fetch transaction data from Solscan.")
    /\ UNCHANGED <<request, outside, limit, offset, requests, fetched,
                   holdersLocals, tradersLocals, intervalLocals>>

NextInterval ==
    \/ IntervalProHandler
    \/ IntervalPublicHandler
    \/ IntervalLoop
    \/ IntervalProPage
    \/ IntervalPublicPage
    \/ IntervalProFail
    \/ IntervalPublicFail

SpecInterval == InitInterval /\ [][NextInterval]_vars

\* ------------------------------------------- interval: an endless upstream
\* The upstream keeps serving the same full page and, in the Pro API, reports
\* a total beyond every offset asked for.
InitIntervalEndless ==
    /\ endpoint = "interval"
    /\ variant \in {"pro", "public"}
    /\ query \in {[NoQuery EXCEPT !.token = t, !.from = f, !.to = u] :
                    t \in TokenQueries, f \in FromQueries, u \in ToQueries}
    /\ apiKey \in IF variant = "pro" THEN BOOLEAN ELSE {FALSE}
    /\ stream \in IF variant = "pro"
                  THEN [1..pageSize -> IntervalTransferRecords]
                  ELSE [1..pageSize -> IntervalTransactionRecords]
    /\ holes = {}
    /\ endless = TRUE
    /\ NoFormat
    /\ InitLocals

\* Every upstream request is answered or fails, and the continuation of the
\* await then runs: a step that can be taken is taken.
SpecIntervalEndless ==
    InitIntervalEndless /\ [][NextInterval]_vars /\ WF_vars(NextInterval)

\* The same scheduling against the finite upstreams.
SpecIntervalFair ==
    InitInterval /\ [][NextInterval]_vars /\ WF_vars(NextInterval)

\* C17: against every upstream, also one that keeps returning full pages of
\* records with blockTime >= from, fetchActiveWallets stops issuing requests
\* and the request is answered.
C17_Original == <>(pc = "done")

\* ------------------------------------------------------ interval: claims
IntervalAnswered == endpoint = "interval" /\ status = 200

\* Record i of the stream lies in the window: from <= blockTime <= to.
InWindow(i) ==
    JsLe(from, Num(stream[i].blockTime)) /\ JsLe(Num(stream[i].blockTime), to)

\* The stream positions of wallet w's in-window records.
WindowRecords(w) ==
    {i \in 1..Len(stream) : WalletOf(stream[i]) = w /\ InWindow(i)}

EmittedWallets == {body[i].wallet : i \in 1..Len(body)}

\* C6 as stated: a wallet appears in the output if and only if the stream
\* holds a record of that wallet with from <= blockTime <= to, for every
\* upstream record stream and every from/to.
C6_Original ==
    IntervalAnswered =>
        \A w \in Wallets : w \in EmittedWallets <=> WindowRecords(w) # {}

\* C7 as stated: for every wallet in the output, lastTx is the maximum
\* blockTime among that wallet's records with from <= blockTime <= to, so
\* every emitted lastTx lies in [from, to].
C7_Original ==
    IntervalAnswered =>
        \A k \in 1..Len(body) :
            /\ JsLe(from, Num(body[k].lastTx)) /\ JsLe(Num(body[k].lastTx), to)
            /\ \E i \in WindowRecords(body[k].wallet) : stream[i].blockTime = body[k].lastTx
            /\ \A i \in WindowRecords(body[k].wallet) : stream[i].blockTime <= body[k].lastTx

\* The upstream serves its records in descending blockTime order.
Descending ==
    \A i, j \in 1..Len(stream) : i < j => stream[i].blockTime >= stream[j].blockTime

\* C8: when the upstream is in descending blockTime order, every record with
\* from <= blockTime <= to has passed the window test by the time the loop
\* has stopped and the answer is sent: the short-circuit omits none.
C8_ShortCircuitOmitsNothing ==
    (IntervalAnswered /\ Descending) =>
        \A i \in 1..Len(stream) : InWindow(i) => i \in scanned

\* C8 happens: on a descending stream the short-circuit fired on the second
\* page, after in-window records had been processed.
C8_Witness ==
    /\ IntervalAnswered /\ Descending
    /\ ~continueFetching
    /\ Len(requests) = 2
    /\ \E i \in scanned : InWindow(i)


Init == InitHolders \/ InitTraders \/ InitInterval

Next == NextHolders \/ NextTraders \/ NextInterval

Spec == Init /\ [][Next]_vars

\* ====================================================== formatWalletAddress
MaxAddress == 9

MaxChars == 2

\* chars = 4, the default of the second parameter.
DefaultChars == 4

AddressChars == {"a", "b"}

Ellipsis == <<".", ".", ".">>

\* String.prototype.slice(start, end): a negative index counts from the end,
\* both are clamped to the string.
StrSlice(s, start, end) ==
    LET len == Len(s)
        lo  == IF start < 0 THEN Max(len + start, 0) ELSE Min(start, len)
        hi  == IF end < 0 THEN Max(len + end, 0) ELSE Min(end, len)
    IN  SubSeq(s, lo + 1, hi)

\* The value of the parameter chars inside the function.
CharsArg == IF chars = <<>> THEN DefaultChars ELSE chars[1]

\* formatWalletAddress of src/utils/solscan.ts; -chars is 0 when chars is 0.
formatWalletAddress(a, c) ==
    IF Len(a) <= c * 2
    THEN a
    ELSE StrSlice(a, 0, c) \o Ellipsis \o StrSlice(a, 0 - c, Len(a))

\* formatWalletAddress of the client-side API module: also !address.
formatWalletAddressClient(a, c) ==
    IF a = <<>> \/ Len(a) <= c * 2
    THEN a
    ELSE StrSlice(a, 0, c) \o Ellipsis \o StrSlice(a, 0 - c, Len(a))

InitFormat ==
    /\ endpoint = "format"
    /\ variant \in {"utils", "client"}
    /\ query = NoQuery
    /\ apiKey = FALSE
    /\ stream = <<>>
    /\ Consecutive
    /\ InitLocals
    /\ address \in SeqsUpTo(AddressChars, MaxAddress)
    /\ chars \in {<<>>} \cup {<<n>> : n \in (0 - 1)..MaxChars}
    /\ formatted = <<>>

\* A call of formatWalletAddress of src/utils/solscan.ts.
FormatUtils ==
    /\ endpoint = "format" /\ variant = "utils" /\ pc = "start"
    /\ formatted' = <<formatWalletAddress(address, CharsArg)>>
    /\ pc' = "done"
    /\ UNCHANGED <<request, address, chars, previous, parked, running, limit,
                   offset, requests, fetched, failures, status, body, error,
                   holdersLocals, tradersLocals, intervalLocals>>

\* A call of formatWalletAddress of the client-side API module.
FormatClient ==
    /\ endpoint = "format" /\ variant = "client" /\ pc = "start"
    /\ formatted' = <<formatWalletAddressClient(address, CharsArg)>>
    /\ pc' = "done"
    /\ UNCHANGED <<request, address, chars, previous, parked, running, limit,
                   offset, requests, fetched, failures, status, body, error,
                   holdersLocals, tradersLocals, intervalLocals>>

NextFormat == FormatUtils \/ FormatClient

SpecFormat == InitFormat /\ [][NextFormat]_vars

\* The first n and the last n characters of the address.
FirstChars(n) == SubSeq(address, 1, n)

LastChars(n) == SubSeq(address, Len(address) - n + 1, Len(address))

\* C15: for every address and every count chars >= 0 (4 when not passed),
\* formatWalletAddress returns the address unchanged when its length is at
\* most 2*chars, and otherwise its first chars characters, "...", and its
\* last chars characters.
C15_Original ==
    (formatted # <<>> /\ CharsArg >= 0) =>
        formatted[1] = IF Len(address) <= 2 * CharsArg
                       THEN address
                       ELSE FirstChars(CharsArg) \o Ellipsis \o LastChars(CharsArg)

\* The same statement for chars >= 1.
C15_PositiveChars ==
    (formatted # <<>> /\ CharsArg >= 1) =>
        formatted[1] = IF Len(address) <= 2 * CharsArg
                       THEN address
                       ELSE FirstChars(CharsArg) \o Ellipsis \o LastChars(CharsArg)

\* ===================================================== the same call twice
\* Faulty variant of FreshLocals: the accumulators live outside the fetch
\* functions and survive from one call to the next.
FreshLocalsSharedAccumulators ==
    /\ limit' = NaN
    /\ minAmount' = NaN
    /\ offset' = 0
    /\ transactionsProcessed' = 0
    /\ from' = NaN
    /\ to' = NaN
    /\ continueFetching' = TRUE
    /\ UNCHANGED <<holders, walletVolumes, walletCounts, activeWallets>>

\* Every call of a handler and of its fetch function declares its own
\* locals: let offset = 0, let holders = [], const walletVolumes = {},
\* const walletCounts = {}, let transactionsProcessed = 0,
\* const activeWallets = new Map(), let continueFetching = true.
FreshLocals ==
    /\ limit' = NaN
    /\ minAmount' = NaN
    /\ offset' = 0
    /\ holders' = <<>>
    /\ walletVolumes' = <<>>
    /\ walletCounts' = <<>>
    /\ transactionsProcessed' = 0
    /\ from' = NaN
    /\ to' = NaN
    /\ activeWallets' = <<>>
    /\ continueFetching' = TRUE

\* After a call has been answered 200 the same request arrives once more,
\* against the same upstream.
SecondCall ==
    /\ endpoint \in {"holders", "traders", "interval"}
    /\ pc = "done" /\ status = 200 /\ previous = <<>>
    /\ previous' = <<body>>
    /\ FreshLocals
    /\ pc' = "start"
    /\ status' = 0
    /\ body' = <<>>
    /\ error' = ""
    /\ requests' = <<>>
    /\ fetched' = <<>>
    /\ scanned' = {}
    /\ UNCHANGED <<request, failures, address, chars, formatted, parked, running>>

\* The requests that reach an aggregation: token present and, for the Pro
\* variants, the key configured.
InitTwice ==
    /\ Init
    /\ ~Falsy(query.token)
    /\ variant = "pro" => apiKey

NextTwice == Next \/ SecondCall

SpecTwice == InitTwice /\ [][NextTwice]_vars

\* C14: two calls of the same aggregation with the same parameters against
\* the same upstream pages, both answered 200, return the same array, entry
\* by entry and in the same order.
C14_SecondCallSameOutput ==
    (previous # <<>> /\ pc = "done" /\ status = 200) => body = previous[1]

\* C14 happens: a traders request has been answered twice with at least two
\* rows.
C14_Witness ==
    /\ endpoint = "traders"
    /\ previous # <<>> /\ pc = "done" /\ status = 200
    /\ Len(body) >= 2

\* ==================================================== two concurrent calls
\* The state of one call of a handler: its position, the locals of its fetch
\* function, its answer and its history.
Suspended ==
    [pc |-> pc, limit |-> limit, minAmount |-> minAmount, offset |-> offset,
     holders |-> holders, walletVolumes |-> walletVolumes,
     walletCounts |-> walletCounts,
     transactionsProcessed |-> transactionsProcessed,
     from |-> from, to |-> to, activeWallets |-> activeWallets,
     continueFetching |-> continueFetching, scanned |-> scanned,
     requests |-> requests, fetched |-> fetched, failures |-> failures,
     status |-> status, body |-> body, error |-> error]

\* A call that has not started: the locals its declarations create.
FreshCall ==
    [pc |-> "start", limit |-> NaN, minAmount |-> NaN, offset |-> 0,
     holders |-> <<>>, walletVolumes |-> <<>>, walletCounts |-> <<>>,
     transactionsProcessed |-> 0,
     from |-> NaN, to |-> NaN, activeWallets |-> <<>>,
     continueFetching |-> TRUE, scanned |-> {},
     requests |-> <<>>, fetched |-> <<>>, failures |-> <<>>,
     status |-> 0, body |-> <<>>, error |-> ""]

\* Faulty variant of Resume: the accumulators live outside the fetch
\* functions, so the call that resumes finds the other call's entries.
ResumeSharedAccumulators(call) ==
    /\ pc' = call.pc
    /\ limit' = call.limit
    /\ minAmount' = call.minAmount
    /\ offset' = call.offset
    /\ transactionsProcessed' = call.transactionsProcessed
    /\ from' = call.from
    /\ to' = call.to
    /\ continueFetching' = call.continueFetching
    /\ scanned' = call.scanned
    /\ requests' = call.requests
    /\ fetched' = call.fetched
    /\ failures' = call.failures
    /\ status' = call.status
    /\ body' = call.body
    /\ error' = call.error
    /\ UNCHANGED <<holders, walletVolumes, walletCounts, activeWallets>>

\* The continuation of a call runs with the locals of its own closure.
Resume(call) ==
    /\ pc' = call.pc
    /\ limit' = call.limit
    /\ minAmount' = call.minAmount
    /\ offset' = call.offset
    /\ holders' = call.holders
    /\ walletVolumes' = call.walletVolumes
    /\ walletCounts' = call.walletCounts
    /\ transactionsProcessed' = call.transactionsProcessed
    /\ from' = call.from
    /\ to' = call.to
    /\ activeWallets' = call.activeWallets
    /\ continueFetching' = call.continueFetching
    /\ scanned' = call.scanned
    /\ requests' = call.requests
    /\ fetched' = call.fetched
    /\ failures' = call.failures
    /\ status' = call.status
    /\ body' = call.body
    /\ error' = call.error

\* After a call has been answered 200 alone, the same request arrives twice
\* at once: call A is about to start, call B waits to.
ConcurrentCalls ==
    /\ endpoint \in {"holders", "traders", "interval"}
    /\ pc = "done" /\ status = 200 /\ previous = <<>> /\ parked = <<>>
    /\ previous' = <<body>>
    /\ Resume(FreshCall)
    /\ parked' = <<FreshCall>>
    /\ UNCHANGED <<request, address, chars, formatted, running>>

\* The event loop turns to the other call: the running call has not started,
\* waits at `await axios.get(...)` or has answered, and the other call has
\* not answered yet.
Switch ==
    /\ parked # <<>>
    /\ pc \in {"start", "await", "done"}
    /\ parked[1].pc # "done"
    /\ parked' = <<Suspended>>
    /\ Resume(parked[1])
    /\ running' = IF running = "A" THEN "B" ELSE "A"
    /\ UNCHANGED <<request, previous, address, chars, formatted>>

\* The requests whose two calls are interleaved: limit absent or 1, minAmount
\* absent or 5, the window [2, 3], and records that name a wallet, of the
\* traders endpoint with one blockTime, of the interval endpoint with a
\* blockTime of 1 or 2.
InitPair ==
    /\ InitTwice
    /\ query.limit \in {undefined, <<"1">>}
    /\ query.minAmount \in {undefined, <<"5">>}
    /\ query.from \in {undefined, <<"2">>}
    /\ query.to \in {undefined, <<"3">>}
    /\ \A i \in 1..Len(stream) :
          /\ variant = "public" /\ endpoint # "holders" => stream[i].signer # <<>>
          /\ endpoint = "traders" => stream[i].blockTime = 2
          /\ endpoint = "interval" => stream[i].blockTime \in {1, 2}

NextPair == Next \/ ConcurrentCalls \/ Switch

SpecPair == InitPair /\ [][NextPair]_vars

\* The accumulators of a call hold no entry before the call has received a
\* page.
NothingBeforeFirstPage(call) ==
    call.fetched = <<>> =>
        /\ call.holders = <<>>
        /\ call.walletVolumes = <<>>
        /\ call.walletCounts = <<>>
        /\ call.activeWallets = <<>>

\* The call's answer, when it is a 200, is the array the request is answered
\* with when it runs alone.
SameAsAlone(call) ==
    (call.pc = "done" /\ call.status = 200) => call.body = previous[1]

\* C21: for every interleaving of two concurrent calls of the same request,
\* each call that is answered 200 returns the array the request returns when
\* it runs alone against the same upstream, and no call holds an accumulator
\* entry before it has received a page of its own.
C21_RequestIsolation ==
    (previous # <<>> /\ parked # <<>>) =>
        /\ SameAsAlone(Suspended)
        /\ SameAsAlone(parked[1])
        /\ NothingBeforeFirstPage(Suspended)
        /\ NothingBeforeFirstPage(parked[1])

\* C21 happens: call A of a traders request waits for its second page while
\* call B, started after A's first request and run across A's waits, has
\* received two pages and has been answered with rows.
C21_Witness ==
    /\ endpoint = "traders"
    /\ previous # <<>> /\ parked # <<>>
    /\ running = "B"
    /\ pc = "done" /\ status = 200 /\ body # <<>> /\ Len(requests) = 2
    /\ parked[1].pc = "await" /\ Len(parked[1].requests) = 2

\* ------------------------------------------------------- handlers: claims
FetchErrors ==
    {"Failed to fetch holder data from Solscan.",
     "Failed to fetch transfer data from Solscan.",
     "Failed to fetch transaction data from Solscan."}

\* C9: in every aggregation loop, once an upstream request has failed the
\* request is answered 500 with an error message and no rows; the failed
\* offset was requested once and is the last request issued.
C9_FailureIsTerminal ==
    failures # <<>> =>
        /\ pc = "done"
        /\ status = 500 /\ error \in FetchErrors /\ body = <<>>
        /\ Len(failures) = 1
        /\ requests # <<>> /\ requests[Len(requests)] = failures[1]
        /\ \A i \in 1..(Len(requests) - 1) : requests[i] # failures[1]

\* C9 happens: the second page of a holders request failed after the first
\* page had put rows into the list.
C9_Witness ==
    /\ endpoint = "holders"
    /\ failures # <<>>
    /\ Len(requests) = 2
    /\ holders # <<>>
    /\ status = 500

\* The request lacks a required parameter: the token, or for the interval
\* endpoint from or to.
MissingParameter ==
    \/ Falsy(query.token)
    \/ endpoint = "interval" /\ (Falsy(query.from) \/ Falsy(query.to))

ValidationErrors ==
    {"Token address is required.", "A time range (from, to) is required."}

\* C10: a request without token (on the interval endpoint also one without
\* from or to) issues no upstream request and is answered 400 with an
\* {error} body by the handler's first step.
C10_MissingParameterIs400 ==
    MissingParameter =>
        /\ requests = <<>>
        /\ pc \in {"start", "done"}
        /\ pc = "done" =>
              status = 400 /\ error \in ValidationErrors /\ body = <<>>

\* C10 happens: an interval request with token and to, but no from, against
\* a configured key and a non-empty upstream, has been answered.
C10_Witness ==
    /\ endpoint = "interval" /\ variant = "pro" /\ apiKey
    /\ ~Falsy(query.token) /\ Falsy(query.from) /\ ~Falsy(query.to)
    /\ stream # <<>>
    /\ pc = "done" /\ status = 400

\* The interval request carries token, from and to, but from or to does not
\* parse as a base-10 integer.
InvalidRange ==
    /\ endpoint = "interval"
    /\ ~MissingParameter
    /\ IsNaN(ParseInt(query.from)) \/ IsNaN(ParseInt(query.to))

\* C11: an interval request whose from or to is present but does not parse
\* as a base-10 integer is answered 400 before any upstream request is
\* issued (stated for the handlers that can reach the upstream: the public
\* variant, and the Pro variant with its key configured).
C11_Original ==
    (InvalidRange /\ (variant = "public" \/ apiKey)) =>
        /\ requests = <<>>
        /\ pc = "done" => status = 400

\* The Pro handlers run with the key absent from the environment and every
\* required parameter present.
KeyMissing == variant = "pro" /\ ~apiKey /\ ~MissingParameter

\* C12 as stated: whenever the token is present and the key is absent, the
\* Pro holders, traders and interval handlers issue no upstream request and
\* answer 500 with an error message.
C12_Original ==
    (variant = "pro" /\ ~apiKey /\ ~Falsy(query.token)) =>
        /\ requests = <<>>
        /\ pc = "done" => status = 500 /\ error # ""

\* C12: when every required parameter is present (token; on the interval
\* endpoint also from and to) and the key is absent, the Pro holders,
\* traders and interval handlers issue no upstream request and answer 500
\* with the message "Solscan API key is not configured." and no rows.
C12_KeyMissingIs500 ==
    KeyMissing =>
        /\ requests = <<>>
        /\ pc \in {"start", "done"}
        /\ pc = "done" =>
              /\ status = 500
              /\ error = "Solscan API key is not configured."
              /\ body = <<>>

\* C12 happens: a traders request with a token, against a non-empty upstream
\* and no key, has been answered.
C12_Witness ==
    /\ endpoint = "traders" /\ KeyMissing
    /\ stream # <<>>
    /\ pc = "done" /\ status = 500

\* C13: in every aggregation, when the first page received from the upstream
\* is empty, no second request is issued and the request is answered 200
\* with an empty array and no error.
C13_EmptyFirstPage ==
    (requests # <<>> /\ Page(0) = <<>> /\ failures = <<>>) =>
        /\ requests = <<0>>
        /\ pc \in {"await", "done"}
        /\ pc = "done" => status = 200 /\ body = <<>> /\ error = ""

\* C13 happens: a public holders request with a positive limit has received
\* an empty first page and has been answered.
C13_Witness ==
    /\ endpoint = "holders" /\ variant = "public"
    /\ JsGt(limit, Num(0))
    /\ Page(0) = <<>> /\ requests = <<0>> /\ failures = <<>>
    /\ pc = "done" /\ status = 200

\* The positions of the last requested page whose record is older than from.
OlderInLastPage ==
    LET last == requests[Len(requests)]
    IN  {p \in (last + 1)..Min(last + pageSize, Len(stream)) :
            JsLt(Num(stream[p].blockTime), from)}

\* C19: once fetchActiveWallets has met a record with blockTime < from, the
\* records that passed the test are exactly those before it (none after it
\* in its page), its page is the last one requested and no request is in
\* flight, and the answer is 200 with the wallets accumulated.
C19_ShortCircuitStops ==
    (endpoint = "interval" /\ ~continueFetching) =>
        /\ requests # <<>>
        /\ OlderInLastPage # {}
        /\ \E b \in OlderInLastPage :
              /\ \A p \in OlderInLastPage : b <= p
              /\ scanned = 1..(b - 1)
        /\ Len(fetched) = Min(requests[Len(requests)] + pageSize, Len(stream))
        /\ pc \in {"loop", "done"}
        /\ pc = "done" => status = 200 /\ body = activeWallets /\ error = ""

\* C19 happens: the scan stopped in the first page at a record older than
\* from, the upstream holds a further page with a record inside the window
\* that was never requested, and the wallets gathered were answered.
C19_Witness ==
    /\ endpoint = "interval" /\ ~continueFetching
    /\ requests = <<0>>
    /\ \E p \in (pageSize + 1)..Len(stream) : InWindow(p)
    /\ pc = "done" /\ status = 200 /\ body # <<>>

\* The number of requests that have been answered with a page.
PagesReceived ==
    Len(requests) - Len(failures) - (IF pc = "await" THEN 1 ELSE 0)

\* C20: within one request the i-th upstream request is at offset
\* (i - 1) * pageSize, so offsets increase strictly and none is asked twice;
\* while a request is in flight it is the one at the current offset and
\* every page before it has been received and processed; and in the Pro
\* variants no request is issued at or beyond the total the upstream
\* reported.
C20_PagedFetch ==
    endpoint \in {"holders", "traders", "interval"} =>
        /\ \A i \in 1..Len(requests) : requests[i] = (i - 1) * pageSize
        /\ Len(fetched) = Min(PagesReceived * pageSize, Len(stream))
        /\ pc = "await" => requests # <<>> /\ offset = requests[Len(requests)]
        /\ variant = "pro" => \A i \in 2..Len(requests) : requests[i] < total

\* C20 happens: a Pro request has been answered after two pages, the second
\* of which reached the reported total.
C20_Witness ==
    /\ endpoint = "interval" /\ variant = "pro"
    /\ requests = <<0, pageSize>> /\ failures = <<>>
    /\ pageSize < total /\ total <= 2 * pageSize
    /\ continueFetching
    /\ pc = "done" /\ status = 200

====
